---- MODULE Spec2Model ----
(***************************************************************************)
(* Aureon landing page (script.js): the DOM controllers as a state         *)
(* machine.  One action per browser-delivered event or public method call; *)
(* every action is the whole synchronous dispatch of that event (all the   *)
(* listeners the script registered for it, in registration order, then the *)
(* listeners reached by bubbling).  A listener that throws ends only that  *)
(* listener: the browser reports the error and goes on with the next one.  *)
(*                                                                         *)
(* The page is followed part by part, one specification per part, all over *)
(* the same variables:                                                     *)
(*   Spec, SpecEnv  theme, mobile menu, active link (no clock: a throttle  *)
(*                  timeout may fire at any later moment)                  *)
(*   SpecScroll     the two throttled scroll listeners with their clock    *)
(*   SpecSmooth     nav-link clicks with the smooth-scroll animation       *)
(*   SpecSmoothLive the same with animation frames that keep coming        *)
(*   SpecButtons    button ripples and loading state with their timeouts   *)
(*   SpecReveal     the reveal observer                                    *)
(*   SpecFx         the reveal observer with its timeouts and card hover   *)
(* Scroll and NavLinkClick are the scroll and nav-link click events as     *)
(* Spec sees them; ScrollEvent and AnchorClick are the same events with    *)
(* the parallax listener, the clock and the animation followed as well.    *)
(***************************************************************************)
EXTENDS Integers, Sequences, FiniteSets, TLC

VARIABLES
  storageMode,      \* how window.localStorage behaves for this page load
  present,          \* which of the looked-up page elements exist
  store,            \* localStorage['aureon-theme'] (NoItem when absent)
  dataTheme,        \* document.documentElement data-theme attribute
  theme,            \* ThemeManager.theme
  iconClass,        \* className of the <i> inside #themeToggle
  liveText,         \* textContent of #live-region (Unset: no such element)
  readyState,       \* document.readyState
  bootstrap,        \* "none" | "waiting" | "done": the script's last lines
  initLog,          \* history: document.readyState at every AureonApp.init
  errorLogging,     \* the 'error'/'unhandledrejection' listeners are installed
  parallaxSpeed,    \* data-speed attribute of every .parallax element
  parallaxY,        \* translateY the script wrote, in tenths of a pixel
  parInThrottle,    \* inThrottle of the throttled parallax scroll listener
  navTimer,         \* ms until the navigation throttle's timeout is due
  parTimer,         \* ms until the parallax throttle's timeout is due
  sinceNav,         \* history: ms since handleScroll last ran in its throttle
  sincePar,         \* history: ms since handleParallax last ran
  navGap,           \* history: ms between the last two handleScroll runs
  parGap,           \* history: ms between the last two handleParallax runs
  lastScroll,       \* history: what the last timed scroll event found and did
  anims,            \* smoothScrollTo closures with a frame callback pending
  scrollWritten,    \* the last position passed to window.scrollTo
  finished,         \* history: the animations that ended in the last frame
  animsStarted,     \* history: animations started since the page was loaded
  lastAnchor,       \* history: what the last click on a nav link did
  btn,              \* every .btn: content, disabled, background override
  timers,           \* pending timeouts of the button handlers, oldest first
  clicks,           \* history: button clicks since the page was loaded
  lastButton,       \* history: the button the last button event was about
  revealTimers,     \* per element: ms left of its pending animateElement timeouts
  fx,               \* per element: animation class, inline opacity and transform
  sinceReveal,      \* history: ms since animateElement was first called for it
  lastRevealed,     \* history: the element the last reveal or hover event was about
  pc,               \* "loading" | "ready" | "crashed" (AureonApp.init)
  constructed,      \* the controllers AureonApp.init has assigned, in order
  themeClickBound,  \* #themeToggle has the click listener of line 147
  navEventsBound,   \* NavigationManager.bindEvents has run
  keysBound,        \* AccessibilityManager keydown listeners are installed
  uncaughtError,    \* some handler has thrown since the page was loaded
  sections,         \* document.querySelectorAll('section[id]'), document order
  links,            \* document.querySelectorAll('.nav-link'), document order
  markupActive,     \* which nav links the markup itself marks 'active'
  menu,             \* mobile menu: markers, scroll lock, per-link styles
  navScrolled,      \* .nav carries the class 'scrolled'
  scrollY,          \* window.scrollY
  linkActive,       \* which nav links carry the class 'active'
  navInThrottle,    \* inThrottle of the throttled navigation scroll listener
  observed,         \* targets the reveal IntersectionObserver observes
  inView,           \* element is inside the observer's threshold right now
  prevIntersecting, \* the observer's previous isIntersecting per target
  animateCalls,     \* number of animateElement invocations per element
  entered,          \* number of times the element entered the threshold
  lastEvent,        \* history: the event dispatched last
  menuBefore,       \* history: the menu as it was before that event
  storeAtLoad,      \* history: what the store held when the page was loaded
  themeLog          \* history: theme snapshots taken before the last toggles

vars == <<storageMode, present, store, dataTheme, theme, iconClass, pc,
          constructed, themeClickBound, navEventsBound, keysBound,
          uncaughtError, sections, links, markupActive, menu, navScrolled, scrollY,
          linkActive, navInThrottle, observed, inView, prevIntersecting,
          animateCalls, entered, lastEvent, menuBefore, storeAtLoad,
          themeLog, liveText, readyState, bootstrap, initLog, errorLogging,
          parallaxSpeed, parallaxY, parInThrottle, navTimer, parTimer,
          sinceNav, sincePar, navGap, parGap, lastScroll, anims,
          scrollWritten, finished, animsStarted, lastAnchor, btn, timers,
          clicks,
          lastButton, revealTimers, fx, sinceReveal, lastRevealed>>

themeVars  == <<store, dataTheme, theme, iconClass, themeLog, liveText>>
appVars    == <<pc, constructed, themeClickBound, navEventsBound, keysBound,
                readyState, bootstrap, initLog, errorLogging>>
envVars    == <<storageMode, present, sections, links, markupActive,
                storeAtLoad>>
scrollVars == <<navScrolled, scrollY, linkActive, navInThrottle>>
revealVars == <<observed, inView, prevIntersecting, animateCalls, entered>>
parallaxVars == <<parallaxSpeed, parallaxY, parInThrottle>>
clockVars  == <<navTimer, parTimer, sinceNav, sincePar, navGap, parGap,
                lastScroll>>
\* the state of the parts of the page an event of another part leaves alone
smoothVars == <<anims, scrollWritten, finished, animsStarted, lastAnchor>>
buttonVars == <<btn, timers, clicks, lastButton>>
fxVars     == <<revealTimers, fx, sinceReveal, lastRevealed>>
extVars    == <<parallaxVars, clockVars, smoothVars, buttonVars, fxVars>>
notScroll  == <<smoothVars, buttonVars, fxVars>>
notSmooth  == <<parallaxVars, clockVars, buttonVars, fxVars>>
notButton  == <<parallaxVars, clockVars, smoothVars, fxVars>>
notFx      == <<parallaxVars, clockVars, smoothVars, buttonVars>>

----------------------------------------------------------------------------
(* Bounds and inputs *)

\* number of elements carrying data-aos
NumRevealEls == 2
\* how many times one element may enter the visibility threshold
MaxCrossings == 4

RevealEls == 1..NumRevealEls

\* localStorage.getItem returns null for a key that was never written
NoItem == "<null>"
\* a field or attribute that has not been assigned yet
Unset == "<unset>"

\* what may be stored under 'aureon-theme' when the page loads: nothing,
\* what an earlier load of the page left there (see Reload), or a string
\* written by anything else that shares the origin's storage
StoredItems == {NoItem, "", "dark", "light", "blue"}

\* "ok": storage works; "readThrows": touching localStorage throws
\* (storage disabled); "writeThrows": reads work, setItem throws (quota)
\* number of elements carrying the class 'parallax'
NumParallaxEls == 2
\* the step of the clock that times the scroll listeners, in ms
TickMs == 4

ParallaxEls == 1..NumParallaxEls

\* element.getAttribute('data-speed'): null without the attribute, else
\* its string
SpeedAttrs == {NoItem, "0", "0.2"}

\* scroll offsets reported to the timed scroll listeners
TimedScrollYs == {0, 101, 200}

\* a gap or an elapsed time that does not exist yet
Never == -1

\* the step of the clock that times the reveal timeouts, in ms
RevealTickMs == 100

\* element.getAttribute('data-aos')
AosType(e) == IF e % 2 = 1 THEN "fade-up" ELSE "zoom-in"

\* element.getAttribute('data-aos-delay'): null without the attribute
AosDelay(e) == IF e % 2 = 1 THEN NoItem ELSE "200"

\* the element is one of the cards that setupCardHoverEffects selects
IsCard(e) == e = 1

\* how many button clicks one page load may see
MaxClicks == 3
\* the step of the clock that times the button handlers, in ms
ButtonTickMs == 200

\* the .btn elements of the page: class list and label, word by word
ButtonMarkup == << [pricing |-> FALSE, label |-> <<"Learn", "More">>],
                   [pricing |-> TRUE,  label |-> <<"Choose", "Plan">>],
                   [pricing |-> FALSE, label |-> <<"Watch", "Demo">>] >>

Buttons == DOMAIN ButtonMarkup

\* how many smooth-scroll animations one page load may start
MaxAnims == 2
\* ms between one animation frame and the next
FrameGaps == {250, 500}

\* what document.readyState may be when the script's last lines run;
\* 'complete' takes the same branch as 'interactive'
ReadyStates == {"loading", "interactive"}

Range(s) == {s[i] : i \in DOMAIN s}

StorageModes == {"ok", "readThrows", "writeThrows"}

AllElements == {"themeToggle", "nav", "navToggle", "navMenu"}

AllControllers == <<"ThemeManager", "NavigationManager", "ScrollAnimations",
                    "PerformanceOptimizer", "InteractiveComponents",
                    "AccessibilityManager">>

\* scroll offsets the browser may report
ScrollYs == {0, 100, 101, 350, 450, 950}

\* an href is the sequence of its parts: '#a' is <<"#", "a">>
Hash(id) == <<"#", id>>

\* page markups: sections with vertical extent, nav links with href
Layouts == {
  \* two adjacent sections, one link each
  [sections |-> << [id |-> "a", top |-> 0, height |-> 500],
                   [id |-> "b", top |-> 500, height |-> 500] >>,
   links    |-> << [href |-> Hash("a"), inMenu |-> TRUE],
                   [href |-> Hash("b"), inMenu |-> TRUE] >>],
  \* overlapping sections, two links to the same section, one outside the menu
  [sections |-> << [id |-> "a", top |-> 0, height |-> 600],
                   [id |-> "b", top |-> 500, height |-> 500] >>,
   links    |-> << [href |-> Hash("b"), inMenu |-> TRUE],
                   [href |-> Hash("a"), inMenu |-> TRUE],
                   [href |-> Hash("a"), inMenu |-> FALSE] >>],
  \* a gap between sections, a section without link, a link to another page
  [sections |-> << [id |-> "a", top |-> 0, height |-> 300],
                   [id |-> "c", top |-> 500, height |-> 500] >>,
   links    |-> << [href |-> Hash("a"), inMenu |-> TRUE],
                   [href |-> <<"pricing.html">>, inMenu |-> TRUE] >>] }

\* the markups smooth scrolling is followed on: those above, and one with
\* a link to the page itself and a link whose target is not on the page
AnchorLayouts == Layouts \cup {
  [sections |-> << [id |-> "a", top |-> 0, height |-> 500],
                   [id |-> "b", top |-> 500, height |-> 500] >>,
   links    |-> << [href |-> Hash("b"), inMenu |-> TRUE],
                   [href |-> <<"#">>, inMenu |-> TRUE],
                   [href |-> Hash("zz"), inMenu |-> TRUE] >>] }

----------------------------------------------------------------------------
(* Program constants *)

ScrolledThreshold == 100
LookaheadOffset == 100
\* throttle(..., 16) of both scroll listeners
ThrottleLimit == 16
\* getAttribute('data-speed') || 0.5, in tenths
DefaultSpeedTenths == 5
\* smoothScrollTo(targetId, offset = 80)
DefaultOffset == 80
\* const duration = 1000
Duration == 1000
\* setTimeout(() => ripple.remove(), 600)
RippleMs == 600
\* the two setTimeout(..., 2000) of showLoadingState
LoadingStepMs == 2000

----------------------------------------------------------------------------
(* Theme management *)

\* this.theme = localStorage.getItem('aureon-theme') || 'dark'
\* (null and the empty string are falsy)
InitialTheme(item) == IF item \in {NoItem, ""} THEN "dark" ELSE item

\* const newTheme = this.theme === 'dark' ? 'light' : 'dark'
NewTheme(t) == IF t = "dark" THEN "light" ELSE "dark"

IconFor(t) == IF t = "dark" THEN "fas fa-sun" ELSE "fas fa-moon"

\* applyTheme with the persisting statement left out
applyTheme_NoPersist(t) ==
  [dataTheme |-> t, theme |-> t, store |-> store,
   iconClass |-> IF "themeToggle" \in present THEN IconFor(t) ELSE iconClass,
   threw     |-> FALSE]

\* applyTheme(theme): attribute, field, storage write, icon, in that order;
\* a throwing setItem leaves the attribute and the field written
applyTheme(t) ==
  IF storageMode = "ok"
    THEN [dataTheme |-> t, theme |-> t, store |-> t,
          iconClass |-> IF "themeToggle" \in present THEN IconFor(t)
                                                      ELSE iconClass,
          threw     |-> FALSE]
    ELSE [dataTheme |-> t, theme |-> t, store |-> store,
          iconClass |-> iconClass, threw |-> TRUE]

\* new ThemeManager(): constructor, init, applyTheme, bindEvents
ThemeManagerNew ==
  IF storageMode = "readThrows"
    THEN [dataTheme |-> dataTheme, theme |-> theme, store |-> store,
          iconClass |-> iconClass, threw |-> TRUE, bound |-> FALSE]
    ELSE LET a == applyTheme(InitialTheme(store))
         IN [dataTheme |-> a.dataTheme, theme |-> a.theme, store |-> a.store,
             iconClass |-> a.iconClass, threw |-> a.threw,
             bound |-> ~a.threw /\ "themeToggle" \in present]

Snapshot == <<dataTheme, store, theme>>

LastTwo(s) == IF Len(s) > 2 THEN Tail(s) ELSE s

\* `Theme changed to ${this.theme} mode`
Announcement(t) == <<"Theme changed to ", t, " mode">>

toggleWrapper_AnnounceFirst(a) ==
  IF a.threw THEN liveText ELSE Announcement(theme)

\* the function setupScreenReaderSupport installs as themeManager.toggle,
\* after the original toggle has run with result a: an exception of the
\* original leaves the wrapper before it writes the live region
toggleWrapper(a) ==
  IF a.threw THEN liveText ELSE Announcement(a.theme)

DocumentParsing_Never(rs) == FALSE

\* document.readyState === 'loading'
DocumentParsing(rs) == rs = "loading"

----------------------------------------------------------------------------
(* Navigation: mobile menu *)

LinkIdx == DOMAIN links

\* position of link i in this.navMenu.querySelectorAll('.nav-link')
MenuIndex(i) == Cardinality({j \in 1..(i - 1) : links[j].inMenu})

NoStyle == [animation |-> "", animationDelay |-> <<>>]

\* the item styles with one delay for all items
OpenStyle_NoStagger(i) == [animation |-> "fadeInUp 0.3s ease forwards",
                           animationDelay |-> <<0>>]

\* item.style.animationDelay = `${index * 0.1}s` (kept as the index, in
\* tenths of a second); item.style.animation = 'fadeInUp 0.3s ease forwards'
OpenStyle(i) == [animation |-> "fadeInUp 0.3s ease forwards",
                 animationDelay |-> <<MenuIndex(i)>>]

ClosedMenu == [menuActive |-> FALSE, toggleActive |-> FALSE, overflow |-> "",
               items |-> [i \in LinkIdx |-> NoStyle]]

\* closeMobileMenu without the reset of the page scroll lock
closeMobileMenu_KeepLock(m) ==
  [menu |-> [menuActive |-> FALSE, toggleActive |-> FALSE,
             overflow |-> m.overflow,
             items |-> [i \in LinkIdx |->
                          IF links[i].inMenu THEN NoStyle ELSE m.items[i]]],
   threw |-> FALSE]

\* closeMobileMenu(): a missing #navMenu throws at the first statement, a
\* missing #navToggle at the second, after the menu marker was removed
closeMobileMenu(m) ==
  IF "navMenu" \notin present THEN [menu |-> m, threw |-> TRUE]
  ELSE IF "navToggle" \notin present
    THEN [menu |-> [m EXCEPT !.menuActive = FALSE], threw |-> TRUE]
  ELSE [menu |-> [menuActive |-> FALSE, toggleActive |-> FALSE,
                  overflow |-> "",
                  items |-> [i \in LinkIdx |->
                               IF links[i].inMenu THEN NoStyle ELSE m.items[i]]],
        threw |-> FALSE]

\* openMobileMenu with classList.toggle in place of classList.add
openMobileMenu_ToggleClass(m) ==
  [menu |-> [menuActive |-> ~m.menuActive, toggleActive |-> ~m.toggleActive,
             overflow |-> "hidden",
             items |-> [i \in LinkIdx |->
                          IF links[i].inMenu THEN OpenStyle(i)
                                             ELSE m.items[i]]],
   threw |-> FALSE]

\* openMobileMenu()
openMobileMenu(m) ==
  IF "navMenu" \notin present THEN [menu |-> m, threw |-> TRUE]
  ELSE IF "navToggle" \notin present
    THEN [menu |-> [m EXCEPT !.menuActive = TRUE], threw |-> TRUE]
  ELSE [menu |-> [menuActive |-> TRUE, toggleActive |-> TRUE,
                  overflow |-> "hidden",
                  items |-> [i \in LinkIdx |->
                               IF links[i].inMenu THEN OpenStyle(i)
                                                  ELSE m.items[i]]],
        threw |-> FALSE]

\* toggleMobileMenu()
toggleMobileMenu(m) ==
  IF "navMenu" \notin present THEN [menu |-> m, threw |-> TRUE]
  ELSE IF m.menuActive THEN closeMobileMenu(m) ELSE openMobileMenu(m)

NoOp(m) == [menu |-> m, threw |-> FALSE]

\* this.nav.contains(e.target): the toggle controls and the nav links sit
\* inside the nav region of the page markup
NavContains(target) == target # "outside"

\* document.addEventListener('click', ...) of bindEvents
documentClick(m, target) ==
  IF ~navEventsBound THEN NoOp(m)
  ELSE IF "nav" \notin present THEN [menu |-> m, threw |-> TRUE]
  ELSE IF ~NavContains(target) THEN closeMobileMenu(m)
  ELSE NoOp(m)

\* keydown listener: Escape closes the menu through
\* window.aureonApp?.navigationManager
escapeKey(m) ==
  IF keysBound /\ (\E k \in DOMAIN constructed :
                      constructed[k] = "NavigationManager")
    THEN closeMobileMenu(m)
    ELSE NoOp(m)

----------------------------------------------------------------------------
(* Navigation: scroll-reactive styling and active link *)

\* document.querySelector(`.nav-link[href="#${sectionId}"]`): the first
\* matching link in document order, 0 when there is none
ActiveLinkFor(id) ==
  LET hits == {i \in LinkIdx : links[i].href = Hash(id)}
  IN IF hits = {} THEN 0 ELSE CHOOSE i \in hits : \A j \in hits : i <= j

SectionMatches(s, scrollPos) ==
  scrollPos >= s.top /\ scrollPos < s.top + s.height

\* the forEach body without the removal of the other links' marker
VisitSection_NoClear(act, s, scrollPos) ==
  IF SectionMatches(s, scrollPos)
    THEN [i \in LinkIdx |-> act[i] \/ i = ActiveLinkFor(s.id)]
    ELSE act

\* the forEach body with the markers removed for every section visited
VisitSection_ClearFirst(act, s, scrollPos) ==
  IF SectionMatches(s, scrollPos)
    THEN [i \in LinkIdx |-> i = ActiveLinkFor(s.id)]
    ELSE [i \in LinkIdx |-> FALSE]

\* one iteration of sections.forEach in updateActiveNavLink
VisitSection(act, s, scrollPos) ==
  IF SectionMatches(s, scrollPos)
    THEN [i \in LinkIdx |-> i = ActiveLinkFor(s.id)]
    ELSE act

RECURSIVE VisitFrom(_, _, _)
VisitFrom(act, k, scrollPos) ==
  IF k > Len(sections) THEN act
  ELSE VisitFrom(VisitSection(act, sections[k], scrollPos), k + 1, scrollPos)

\* updateActiveNavLink without the lookahead offset
updateActiveNavLink_NoLookahead(act, y) == VisitFrom(act, 1, y)

\* updateActiveNavLink() at window.scrollY = y
updateActiveNavLink(act, y) == VisitFrom(act, 1, y + LookaheadOffset)

\* handleScroll() at window.scrollY = y; a missing .nav throws before the
\* active link is looked at
handleScroll(act, y) ==
  IF "nav" \notin present
    THEN [navScrolled |-> navScrolled, linkActive |-> act, threw |-> TRUE]
    ELSE [navScrolled |-> y > ScrolledThreshold,
          linkActive |-> updateActiveNavLink(act, y), threw |-> FALSE]

\* new NavigationManager(): bindEvents, then handleScroll
NavigationManagerNew ==
  LET h == handleScroll(linkActive, scrollY)
  IN [navScrolled |-> h.navScrolled, linkActive |-> h.linkActive,
      threw |-> h.threw, bound |-> TRUE]

----------------------------------------------------------------------------
(* Parallax and the throttle of the scroll listeners *)

\* the number a data-speed string converts to when it is multiplied, in
\* tenths
NumberTenths(str) == CASE str = "0" -> 0
                       [] str = "0.2" -> 2

\* element.getAttribute('data-speed') || 0.5: null and '' are falsy, any
\* other string (also '0') is kept
speedOf(attr) == IF attr \in {NoItem, ""} THEN DefaultSpeedTenths
                                           ELSE NumberTenths(attr)

\* a parallax that moves every element by the distance scrolled
handleParallax_Relative(y) ==
  [e \in ParallaxEls |-> 0 - ((y - scrollY) * speedOf(parallaxSpeed[e]))]

\* handleParallax() at window.scrollY = y: translateY(-(y * speed)) for
\* every .parallax element
handleParallax(y) ==
  [e \in ParallaxEls |-> 0 - (y * speedOf(parallaxSpeed[e]))]

\* a throttle that never opens its window
throttle_NoWindow(t, threw) ==
  [ran |-> TRUE, inThrottle |-> t.inThrottle, timer |-> t.timer]

\* one call of the function throttle(func, limit) returned, t its
\* inThrottle and pending timeout: func runs only outside the window, and
\* the window opens after func has returned (not when it threw)
throttle(t, threw) ==
  IF t.inThrottle
    THEN [ran |-> FALSE, inThrottle |-> TRUE, timer |-> t.timer]
    ELSE [ran |-> TRUE, inThrottle |-> ~threw,
          timer |-> IF threw THEN t.timer ELSE ThrottleLimit]

\* elapsed times are followed up to one step past the throttle limit
GapCap == ThrottleLimit + TickMs

Elapse(since) == IF since = Never THEN Never
                 ELSE IF since + TickMs > GapCap THEN GapCap
                 ELSE since + TickMs

CountDown(timer) == IF timer > TickMs THEN timer - TickMs ELSE 0

----------------------------------------------------------------------------
(* Smooth scrolling *)

\* positions computed by the easing are kept as exact fractions num/den
GCD(a, b) ==
  LET gcd[x \in Nat, y \in Nat] == IF y = 0 THEN x ELSE gcd[y, x % y]
  IN gcd[a, b]

Abs(n) == IF n < 0 THEN 0 - n ELSE n

Frac(n, d) ==
  LET frac[x \in Int, y \in Nat] == [num |-> x \div GCD(Abs(x), y),
                                     den |-> y \div GCD(Abs(x), y)]
  IN frac[n, d]

Cube(n) == n * n * n

\* easeInOutCubic(t, b, c, d)
easeInOutCubic(t, b, c, d) ==
  LET t1 == Frac(t, d \div 2)                       \* t /= d / 2
  IN IF t1.num < t1.den                             \* if (t < 1)
       THEN Frac(c * Cube(t1.num) + b * 2 * Cube(t1.den), 2 * Cube(t1.den))
       ELSE LET t2 == [num |-> t1.num - 2 * t1.den, den |-> t1.den]  \* t -= 2
            IN Frac(c * (Cube(t2.num) + 2 * Cube(t2.den))
                      + b * 2 * Cube(t2.den),
                    2 * Cube(t2.den))

\* document.querySelector(href): the sections are the elements with an id
Targets(href) == {k \in DOMAIN sections : href = Hash(sections[k].id)}

\* smoothScrollTo(href) at window.pageYOffset = y: the closures it adds to
\* the pending frame callbacks (none when the target does not exist);
\* 'elapsed' is currentTime - start at the closure's last run (Never while
\* start is null), 'target' repeats targetPosition for the properties
smoothScrollTo(href, y) ==
  IF Targets(href) = {} THEN <<>>
  ELSE LET k == CHOOSE k \in Targets(href) : \A j \in Targets(href) : k <= j
           targetPosition == sections[k].top - DefaultOffset
       IN << [startPosition |-> y, distance |-> targetPosition - y,
              elapsed |-> Never, target |-> targetPosition] >>

\* document.querySelector(href) throws a SyntaxError when href is not a
\* valid selector: a '#' with nothing after it
SelectorThrows(href) == href = <<"#">>

\* the anchor listener of a nav link: href.startsWith('#'), then
\* e.preventDefault() and smoothScrollTo(href)
anchorListener(href, y) ==
  IF Head(href) = "#"
    THEN [prevented |-> TRUE,
          threw |-> SelectorThrows(href),
          new |-> IF SelectorThrows(href) THEN <<>>
                                          ELSE smoothScrollTo(href, y)]
    ELSE [prevented |-> FALSE, threw |-> FALSE, new |-> <<>>]

\* no nav link has been clicked yet
NoAnchor == [href |-> <<>>, prevented |-> FALSE, threw |-> FALSE,
             requested |-> 0, scrollBefore |-> 0, overlap |-> FALSE,
             target |-> 0]

\* start taken anew on every frame
timeElapsed_Restart(a, gap) == 0

\* timeElapsed of one run of animation(currentTime), the frame coming gap
\* ms after the previous one
timeElapsed(a, gap) == IF a.elapsed = Never THEN 0 ELSE a.elapsed + gap

\* where window.scrollTo(0, run) leaves the page: whole pixels, not above
\* the top of the document
ScrollTo(run) ==
  LET px == (2 * run.num + run.den) \div (2 * run.den)
  IN IF px < 0 THEN 0 ELSE px

RECURSIVE RunFrame(_, _, _)
\* the pending callbacks run in request order; each writes its position
\* and requests another frame while timeElapsed < duration.  r collects
\* the callbacks requested again, the last position written and the
\* animations that ended
RunFrame(as, gap, r) ==
  IF as = <<>> THEN r
  ELSE LET a == Head(as)
           te == timeElapsed(a, gap)
           run == easeInOutCubic(te, a.startPosition, a.distance, Duration)
       IN RunFrame(Tail(as), gap,
            [anims |-> IF te < Duration
                         THEN Append(r.anims, [a EXCEPT !.elapsed = te])
                         ELSE r.anims,
             written |-> run,
             finished |-> IF te < Duration THEN r.finished
                          ELSE Append(r.finished,
                                      [target |-> a.target, run |-> run,
                                       timeElapsed |-> te])])

----------------------------------------------------------------------------
(* Buttons: ripple and loading state *)

\* button.classList.contains('pricing-btn')
\*   || button.textContent.includes('Demo')
HasLoadingState(b) ==
  ButtonMarkup[b].pricing \/ "Demo" \in Range(ButtonMarkup[b].label)

\* a ripple span that came out of parsing markup: it is no element a
\* pending timeout refers to
Parsed == 0

\* button.innerHTML read: the text and the serialised child spans
GetInnerHTML(bt) == [text |-> bt.text, spans |-> Len(bt.ripples)]

\* button.innerHTML = html: the old children are detached, the markup is
\* parsed into new elements
SetInnerHTML(bt, html) ==
  [bt EXCEPT !.text = html.text,
             !.ripples = [k \in 1..html.spans |-> Parsed]]

Processing == [text |-> <<"<i class=\"fas fa-spinner fa-spin\"></i>",
                          "Processing...">>, spans |-> 0]

Success == [text |-> <<"<i class=\"fas fa-check\"></i>", "Success!">>,
            spans |-> 0]

\* createRippleEffect(e, button): the span with identity id is appended
createRippleEffect(bt, id) == [bt EXCEPT !.ripples = Append(@, id)]

\* showLoadingState without button.disabled = true
showLoadingState_NotDisabled(bt) ==
  [button |-> SetInnerHTML(bt, Processing),
   originalText |-> GetInnerHTML(bt)]

\* showLoadingState(button), up to its first setTimeout; originalText is
\* what innerHTML holds when the handler runs
showLoadingState(bt) ==
  [button |-> [SetInnerHTML(bt, Processing) EXCEPT !.disabled = TRUE],
   originalText |-> GetInnerHTML(bt)]

\* ripple.remove(): nothing happens when the span is no child any more
RemoveRipple(bt, id) ==
  [bt EXCEPT !.ripples = SelectSeq(@, LAMBDA r : r # id)]

\* the first setTimeout callback of showLoadingState
showSuccess(bt) ==
  [SetInnerHTML(bt, Success) EXCEPT !.background = "var(--color-accent)"]

\* the second setTimeout callback of showLoadingState
restoreButton(bt, originalText) ==
  [SetInnerHTML(bt, originalText) EXCEPT !.disabled = FALSE,
                                         !.background = ""]

Due(k) == /\ timers[k].remaining = 0
          /\ \A j \in 1..(k - 1) : timers[j].remaining > 0

Without(seq, k) == [j \in 1..(Len(seq) - 1) |->
                      IF j < k THEN seq[j] ELSE seq[j + 1]]

\* the time that passes in one step of the button clock: ButtonTickMs, or
\* less when a timeout falls due earlier
ButtonStep ==
  LET soon == {r \in 1..ButtonTickMs :
                 \E k \in DOMAIN timers : timers[k].remaining = r}
  IN IF soon = {} THEN ButtonTickMs
     ELSE CHOOSE r \in soon : \A q \in soon : r <= q

----------------------------------------------------------------------------
(* Reveal animations *)

\* the observer callback without the unobserve call
observerCallback_NoUnobserve(entries) ==
  LET hit == {e \in entries : inView'[e]}
  IN [animateCalls |-> [e \in RevealEls |->
                          animateCalls[e] + (IF e \in hit THEN 1 ELSE 0)],
      observed |-> observed]

\* the IntersectionObserver callback of setupIntersectionObserver, given the
\* targets that have an entry; an entry's isIntersecting is the target's
\* visibility at the observation that queued it
observerCallback(entries) ==
  LET hit == {e \in entries : inView'[e]}
  IN [animateCalls |-> [e \in RevealEls |->
                          animateCalls[e] + (IF e \in hit THEN 1 ELSE 0)],
      observed |-> observed \ hit]

\* the number a data-aos-delay string converts to as a setTimeout delay
DelayNumber(str) == CASE str = "200" -> 200
                      [] str = "0" -> 0

\* element.getAttribute('data-aos-delay') || 0
delayOf(e) == IF AosDelay(e) \in {NoItem, ""} THEN 0
                                               ELSE DelayNumber(AosDelay(e))

\* an animateElement whose timeout does not wait
animateElement_NoDelay(pending, e) == Append(pending, 0)

\* animateElement(element), up to its setTimeout: one more timeout pending
\* for the element
animateElement(pending, e) == Append(pending, delayOf(e))

\* the setTimeout callback of animateElement
revealNow(f, e) ==
  [animClass |-> <<"aos-animate-", AosType(e)>>,
   opacity   |-> "1",
   transform |-> "translateY(0) translateX(0) scale(1)"]

\* the reveal clock is followed up to one step past the longest delay
RevealCap == 200 + RevealTickMs

RevealElapse(since, step) == IF since = Never THEN Never
                             ELSE IF since + step > RevealCap THEN RevealCap
                             ELSE since + step

\* the time that passes in one step of the reveal clock: RevealTickMs, or
\* less when a timeout falls due earlier
RevealStep ==
  LET soon == {r \in 1..RevealTickMs :
                 \E e \in RevealEls :
                   \E k \in DOMAIN revealTimers[e] : revealTimers[e][k] = r}
  IN IF soon = {} THEN RevealTickMs
     ELSE CHOOSE r \in soon : \A q \in soon : r <= q

----------------------------------------------------------------------------
(* Actions *)

Note(ev) == /\ lastEvent' = ev
            /\ menuBefore' = menu

\* AureonApp.init(): the six constructors in order; the first one that
\* throws ends init, and the controllers after it are never constructed
RunInit(ev) ==
  /\ LET tm == ThemeManagerNew
         nm == NavigationManagerNew
         navRan == ~tm.threw
         allRan == navRan /\ ~nm.threw
     IN /\ dataTheme' = tm.dataTheme
        /\ theme' = tm.theme
        /\ store' = tm.store
        /\ iconClass' = tm.iconClass
        /\ themeClickBound' = tm.bound
        /\ navEventsBound' = (navRan /\ nm.bound)
        /\ navScrolled' = IF navRan THEN nm.navScrolled ELSE navScrolled
        /\ linkActive' = IF navRan THEN nm.linkActive ELSE linkActive
        /\ observed' = IF allRan THEN RevealEls ELSE observed
        /\ keysBound' = allRan
        /\ constructed' = IF allRan THEN AllControllers
                          ELSE IF navRan THEN <<"ThemeManager">>
                          ELSE <<>>
        /\ liveText' = IF allRan THEN "" ELSE liveText
        /\ errorLogging' = allRan
        /\ pc' = IF allRan THEN "ready" ELSE "crashed"
        /\ uncaughtError' = ~allRan
  /\ initLog' = Append(initLog, readyState')
  /\ bootstrap' = "done"
  /\ Note(ev)
  /\ UNCHANGED <<extVars, envVars, menu, scrollY, navInThrottle, inView,
                 prevIntersecting, animateCalls, entered, themeLog>>

\* the script's last lines run while the document is still being parsed:
\* they register the DOMContentLoaded listener
ScriptWhileLoading ==
  /\ bootstrap = "none"
  /\ DocumentParsing(readyState)
  /\ bootstrap' = "waiting"
  /\ Note("script")
  /\ UNCHANGED <<extVars, envVars, themeVars, scrollVars, revealVars, menu,
                 uncaughtError, pc, constructed, themeClickBound,
                 navEventsBound, keysBound, readyState, initLog,
                 errorLogging>>

\* the script's last lines run on a parsed document (a deferred or late
\* script): the application is constructed and initialised at once
AppInit ==
  /\ bootstrap = "none"
  /\ ~DocumentParsing(readyState)
  /\ readyState' = readyState
  /\ RunInit("init")

\* the browser has parsed the document and delivers DOMContentLoaded
DOMContentLoaded ==
  /\ readyState = "loading"
  /\ readyState' = "interactive"
  /\ IF bootstrap = "waiting"
       THEN RunInit("DOMContentLoaded")
       ELSE /\ Note("DOMContentLoaded")
            /\ UNCHANGED <<extVars, envVars, themeVars, scrollVars, revealVars, menu,
                           uncaughtError, pc, constructed, themeClickBound,
                           navEventsBound, keysBound, bootstrap, initLog,
                           errorLogging>>

\* click on #themeToggle: toggle(), then the document click listener
ThemeToggleClick ==
  /\ pc # "loading"
  /\ "themeToggle" \in present
  /\ LET a == IF themeClickBound
                THEN applyTheme(NewTheme(theme))
                ELSE [dataTheme |-> dataTheme, theme |-> theme,
                      store |-> store, iconClass |-> iconClass,
                      threw |-> FALSE]
         d == documentClick(menu, "themeToggle")
     IN /\ dataTheme' = a.dataTheme
        /\ theme' = a.theme
        /\ store' = a.store
        /\ iconClass' = a.iconClass
        /\ themeLog' = IF themeClickBound
                         THEN LastTwo(Append(themeLog, Snapshot))
                         ELSE themeLog
        /\ liveText' = IF themeClickBound
                             /\ "AccessibilityManager" \in Range(constructed)
                         THEN toggleWrapper(a)
                         ELSE liveText
        /\ menu' = d.menu
        /\ uncaughtError' = (uncaughtError \/ a.threw \/ d.threw)
  /\ Note("themeToggleClick")
  /\ UNCHANGED <<extVars, envVars, appVars, scrollVars, revealVars>>

\* an event that only touches the mobile menu
MenuEvent(ev, r) ==
  /\ menu' = r.menu
  /\ uncaughtError' = (uncaughtError \/ r.threw)
  /\ Note(ev)
  /\ UNCHANGED <<extVars, envVars, appVars, themeVars, scrollVars, revealVars>>

Then(r1, r2) == [menu |-> r2.menu, threw |-> r1.threw \/ r2.threw]

\* click on #navToggle: toggleMobileMenu(), then the document click listener
NavToggleClick ==
  /\ pc # "loading"
  /\ "navToggle" \in present
  /\ LET r1 == IF navEventsBound THEN toggleMobileMenu(menu) ELSE NoOp(menu)
     IN MenuEvent("navToggleClick",
                  Then(r1, documentClick(r1.menu, "navToggle")))

\* click on a nav link: closeMobileMenu(), the anchor listener, then the
\* document click listener
NavLinkClick ==
  /\ pc # "loading"
  /\ \E i \in LinkIdx :
       LET r1 == IF navEventsBound THEN closeMobileMenu(menu) ELSE NoOp(menu)
       IN MenuEvent("navLinkClick",
                    Then(r1, documentClick(r1.menu, "navLink")))

\* click on an element outside the nav region that has no listener of its own
OutsideClick ==
  /\ pc # "loading"
  /\ MenuEvent("outsideClick", documentClick(menu, "outside"))

\* keydown with key 'Escape'
EscapeKey ==
  /\ pc # "loading"
  /\ MenuEvent("escape", escapeKey(menu))

NavigationManagerAlive ==
  \E k \in DOMAIN constructed : constructed[k] = "NavigationManager"

\* navigationManager.openMobileMenu() called directly
CallOpenMobileMenu ==
  /\ NavigationManagerAlive
  /\ MenuEvent("openMobileMenu", openMobileMenu(menu))

\* navigationManager.closeMobileMenu() called directly
CallCloseMobileMenu ==
  /\ NavigationManagerAlive
  /\ MenuEvent("closeMobileMenu", closeMobileMenu(menu))

\* window scroll event at offset y; throttle(func, 16) runs func only when
\* inThrottle is false and sets it after func returned
Scroll ==
  /\ pc # "loading"
  /\ \E y \in ScrollYs :
       LET runs == navEventsBound /\ ~navInThrottle
           h == handleScroll(linkActive, y)
       IN /\ scrollY' = y
          /\ navScrolled' = IF runs THEN h.navScrolled ELSE navScrolled
          /\ linkActive' = IF runs THEN h.linkActive ELSE linkActive
          /\ navInThrottle' = (navInThrottle \/ (runs /\ ~h.threw))
          /\ uncaughtError' = (uncaughtError \/ (runs /\ h.threw))
          /\ Note(IF runs THEN "scroll" ELSE "scrollThrottled")
  /\ UNCHANGED <<extVars, envVars, appVars, themeVars, menu, revealVars>>

\* setTimeout(() => inThrottle = false, limit)
NavThrottleTimer ==
  /\ navInThrottle
  /\ navInThrottle' = FALSE
  /\ Note("throttleTimer")
  /\ UNCHANGED <<extVars, envVars, appVars, themeVars, menu, uncaughtError,
                 navScrolled, scrollY, linkActive, revealVars>>

\* click on a .btn element: the ripple listener, then the loading-state
\* listener where setupButtonInteractions registered one.  A disabled
\* button receives no click from the browser.
ButtonClick ==
  /\ pc # "loading"
  /\ "InteractiveComponents" \in Range(constructed)
  /\ clicks < MaxClicks
  /\ \E b \in Buttons :
       LET id == clicks + 1
           rippled == createRippleEffect(btn[b], id)
           rippleTimer == [kind |-> "ripple", button |-> b, ripple |-> id,
                           originalText |-> Unset, remaining |-> RippleMs]
           ls == showLoadingState(rippled)
           successTimer == [kind |-> "success", button |-> b,
                            ripple |-> Parsed,
                            originalText |-> ls.originalText,
                            remaining |-> LoadingStepMs]
       IN /\ ~btn[b].disabled
          /\ btn' = [btn EXCEPT ![b] = IF HasLoadingState(b) THEN ls.button
                                                            ELSE rippled]
          /\ timers' = IF HasLoadingState(b)
                         THEN timers \o <<rippleTimer, successTimer>>
                         ELSE Append(timers, rippleTimer)
          /\ lastButton' = b
  /\ clicks' = clicks + 1
  /\ Note("buttonClick")
  /\ UNCHANGED <<envVars, appVars, themeVars, menu, uncaughtError,
                 scrollVars, revealVars, notButton>>

\* a timeout of a button handler fires: timeouts fire when they are due,
\* those due together in the order they were set
ButtonTimer ==
  /\ \E k \in DOMAIN timers :
       LET t == timers[k]
           rest == Without(timers, k)
       IN /\ Due(k)
          /\ lastButton' = t.button
          /\ IF t.kind = "ripple"
               THEN /\ btn' = [btn EXCEPT ![t.button] =
                                            RemoveRipple(@, t.ripple)]
                    /\ timers' = rest
                    /\ Note("rippleTimer")
               ELSE IF t.kind = "success"
               THEN /\ btn' = [btn EXCEPT ![t.button] = showSuccess(@)]
                    /\ timers' = Append(rest,
                                        [t EXCEPT !.kind = "restore",
                                                  !.remaining = LoadingStepMs])
                    /\ Note("successTimer")
               ELSE /\ btn' = [btn EXCEPT ![t.button] =
                                            restoreButton(@, t.originalText)]
                    /\ timers' = rest
                    /\ Note("restoreTimer")
  /\ UNCHANGED <<envVars, appVars, themeVars, menu, uncaughtError,
                 scrollVars, revealVars, notButton, clicks>>

\* time passes while no timeout is due
ButtonTick ==
  /\ timers # <<>>
  /\ \A k \in DOMAIN timers : timers[k].remaining > 0
  /\ timers' = [k \in DOMAIN timers |->
                  [timers[k] EXCEPT !.remaining = @ - ButtonStep]]
  /\ Note("buttonTick")
  /\ UNCHANGED <<envVars, appVars, themeVars, menu, uncaughtError,
                 scrollVars, revealVars, notButton, btn, clicks,
                 lastButton>>

\* click on a nav link, the animation included: closeMobileMenu(), the
\* anchor listener with smoothScrollTo, then the document click listener
AnchorClick ==
  /\ pc # "loading"
  /\ \E i \in LinkIdx :
       LET r1 == IF navEventsBound THEN closeMobileMenu(menu) ELSE NoOp(menu)
           r == Then(r1, documentClick(r1.menu, "navLink"))
           l == IF navEventsBound THEN anchorListener(links[i].href, scrollY)
                                  ELSE [prevented |-> FALSE, threw |-> FALSE,
                                        new |-> <<>>]
       IN /\ animsStarted + Len(l.new) <= MaxAnims
          /\ anims' = anims \o l.new
          /\ animsStarted' = animsStarted + Len(l.new)
          /\ lastAnchor' = [href |-> links[i].href,
                            prevented |-> l.prevented,
                            threw |-> l.threw,
                            requested |-> Len(l.new),
                            scrollBefore |-> scrollY,
                            overlap |-> (anims # <<>>),
                            target |-> IF l.new = <<>> THEN 0
                                       ELSE l.new[1].target]
          /\ menu' = r.menu
          /\ uncaughtError' = (uncaughtError \/ r.threw \/ l.threw)
  /\ Note("anchorClick")
  /\ UNCHANGED <<envVars, appVars, themeVars, scrollVars, revealVars,
                 notSmooth, scrollWritten, finished>>

\* one animation frame: every pending animation callback runs once
AnimationFrame ==
  /\ pc # "loading"
  /\ anims # <<>>
  /\ \E gap \in FrameGaps :
       \E r \in {RunFrame(anims, gap,
                          [anims |-> <<>>, written |-> scrollWritten,
                           finished |-> <<>>])} :
          /\ anims' = r.anims
          /\ scrollWritten' = r.written
          /\ finished' = r.finished
          /\ scrollY' = ScrollTo(r.written)
  /\ Note("animationFrame")
  /\ UNCHANGED <<envVars, appVars, themeVars, menu, uncaughtError,
                 navScrolled, linkActive, navInThrottle, revealVars,
                 notSmooth, animsStarted, lastAnchor>>

\* a scroll event with the clock running: the throttled navigation
\* listener, then the throttled parallax listener (registration order of
\* the constructors)
ScrollEvent ==
  /\ pc # "loading"
  /\ \E y \in TimedScrollYs :
       LET h == handleScroll(linkActive, y)
           nav == IF navEventsBound
                    THEN throttle([inThrottle |-> navInThrottle,
                                   timer |-> navTimer], h.threw)
                    ELSE [ran |-> FALSE, inThrottle |-> navInThrottle,
                          timer |-> navTimer]
           par == IF "ScrollAnimations" \in Range(constructed)
                    THEN throttle([inThrottle |-> parInThrottle,
                                   timer |-> parTimer], FALSE)
                    ELSE [ran |-> FALSE, inThrottle |-> parInThrottle,
                          timer |-> parTimer]
       IN /\ scrollY' = y
          /\ navScrolled' = IF nav.ran THEN h.navScrolled ELSE navScrolled
          /\ linkActive' = IF nav.ran THEN h.linkActive ELSE linkActive
          /\ navInThrottle' = nav.inThrottle
          /\ navTimer' = nav.timer
          /\ uncaughtError' = (uncaughtError \/ (nav.ran /\ h.threw))
          /\ parallaxY' = IF par.ran THEN handleParallax(y) ELSE parallaxY
          /\ parInThrottle' = par.inThrottle
          /\ parTimer' = par.timer
          /\ sinceNav' = IF nav.ran THEN 0 ELSE sinceNav
          /\ navGap' = IF nav.ran THEN sinceNav ELSE navGap
          /\ sincePar' = IF par.ran THEN 0 ELSE sincePar
          /\ parGap' = IF par.ran THEN sincePar ELSE parGap
          /\ lastScroll' = [navOpen |-> navInThrottle, navRan |-> nav.ran,
                            parOpen |-> parInThrottle, parRan |-> par.ran]
  /\ Note("scrollEvent")
  /\ UNCHANGED <<envVars, appVars, themeVars, menu, revealVars,
                 parallaxSpeed, notScroll>>

\* TickMs of time pass
Tick ==
  /\ pc # "loading"
  /\ navTimer' = CountDown(navTimer)
  /\ parTimer' = CountDown(parTimer)
  /\ sinceNav' = Elapse(sinceNav)
  /\ sincePar' = Elapse(sincePar)
  /\ Note("tick")
  /\ UNCHANGED <<envVars, appVars, themeVars, menu, uncaughtError,
                 scrollVars, revealVars, parallaxVars, navGap, parGap,
                 lastScroll, notScroll>>

\* the navigation throttle's setTimeout(() => inThrottle = false, 16),
\* not before its delay has passed
NavThrottleTimeout ==
  /\ navInThrottle
  /\ navTimer = 0
  /\ navInThrottle' = FALSE
  /\ Note("navThrottleTimeout")
  /\ UNCHANGED <<envVars, appVars, themeVars, menu, uncaughtError,
                 navScrolled, scrollY, linkActive, revealVars, parallaxVars,
                 clockVars, notScroll>>

\* the parallax throttle's setTimeout(() => inThrottle = false, 16)
ParallaxThrottleTimeout ==
  /\ parInThrottle
  /\ parTimer = 0
  /\ parInThrottle' = FALSE
  /\ Note("parallaxThrottleTimeout")
  /\ UNCHANGED <<envVars, appVars, themeVars, menu, uncaughtError,
                 scrollVars, revealVars, parallaxSpeed, parallaxY,
                 clockVars, notScroll>>

\* what a freshly parsed page holds outside the theme, the navigation and
\* the reveal observer
PageFresh ==
  /\ parallaxY = [e \in ParallaxEls |-> Unset]
  /\ parInThrottle = FALSE
  /\ navTimer = 0
  /\ parTimer = 0
  /\ sinceNav = Never
  /\ sincePar = Never
  /\ navGap = Never
  /\ parGap = Never
  /\ lastScroll = [navOpen |-> FALSE, navRan |-> FALSE,
                   parOpen |-> FALSE, parRan |-> FALSE]
  /\ anims = <<>>
  /\ scrollWritten = Unset
  /\ finished = <<>>
  /\ animsStarted = 0
  /\ lastAnchor = NoAnchor
  /\ btn = [b \in Buttons |->
             [text |-> ButtonMarkup[b].label, ripples |-> <<>>,
              disabled |-> FALSE, background |-> ""]]
  /\ timers = <<>>
  /\ clicks = 0
  /\ lastButton = 1
  /\ revealTimers = [e \in RevealEls |-> <<>>]
  /\ fx = [e \in RevealEls |->
            [animClass |-> <<>>, opacity |-> Unset, transform |-> Unset]]
  /\ sinceReveal = [e \in RevealEls |-> Never]
  /\ lastRevealed = 1

\* the page is loaded again: the document starts over from its markup,
\* localStorage keeps what the script wrote
Reload ==
  /\ pc # "loading"
  /\ scrollY' \in {0, 450}
  /\ linkActive' = markupActive
  /\ dataTheme' = Unset
  /\ theme' = Unset
  /\ iconClass' = Unset
  /\ pc' = "loading"
  /\ constructed' = <<>>
  /\ themeClickBound' = FALSE
  /\ navEventsBound' = FALSE
  /\ keysBound' = FALSE
  /\ uncaughtError' = FALSE
  /\ menu' = ClosedMenu
  /\ navScrolled' = FALSE
  /\ navInThrottle' = FALSE
  /\ observed' = {}
  /\ prevIntersecting' = [e \in RevealEls |-> Unset]
  /\ animateCalls' = [e \in RevealEls |-> 0]
  /\ entered' = [e \in RevealEls |-> IF inView[e] THEN 1 ELSE 0]
  /\ lastEvent' = "load"
  /\ menuBefore' = ClosedMenu
  /\ storeAtLoad' = store
  /\ themeLog' = <<>>
  /\ liveText' = Unset
  /\ readyState' \in ReadyStates
  /\ bootstrap' = "none"
  /\ initLog' = <<>>
  /\ errorLogging' = FALSE
  /\ parallaxY' = [e \in ParallaxEls |-> Unset]
  /\ parInThrottle' = FALSE
  /\ navTimer' = 0
  /\ parTimer' = 0
  /\ sinceNav' = Never
  /\ sincePar' = Never
  /\ navGap' = Never
  /\ parGap' = Never
  /\ lastScroll' = [navOpen |-> FALSE, navRan |-> FALSE,
                   parOpen |-> FALSE, parRan |-> FALSE]
  /\ anims' = <<>>
  /\ scrollWritten' = Unset
  /\ finished' = <<>>
  /\ animsStarted' = 0
  /\ lastAnchor' = NoAnchor
  /\ btn' = [b \in Buttons |->
             [text |-> ButtonMarkup[b].label, ripples |-> <<>>,
              disabled |-> FALSE, background |-> ""]]
  /\ timers' = <<>>
  /\ clicks' = 0
  /\ lastButton' = 1
  /\ revealTimers' = [e \in RevealEls |-> <<>>]
  /\ fx' = [e \in RevealEls |->
            [animClass |-> <<>>, opacity |-> Unset, transform |-> Unset]]
  /\ sinceReveal' = [e \in RevealEls |-> Never]
  /\ lastRevealed' = 1
  /\ UNCHANGED <<storageMode, present, sections, links, markupActive, store,
                 inView, parallaxSpeed>>

\* one rendering update: the elements of S cross the visibility threshold,
\* the observer queues an entry for every observed target whose state
\* differs from the one it recorded, and the callback runs on these entries
Frame ==
  /\ pc # "loading"
  /\ \E S \in SUBSET RevealEls :
       /\ S # {} \/ (\E e \in observed : prevIntersecting[e] = Unset)
       /\ \A e \in S : ~inView[e] => entered[e] < MaxCrossings
       /\ inView' = [e \in RevealEls |-> IF e \in S THEN ~inView[e]
                                                     ELSE inView[e]]
       /\ entered' = [e \in RevealEls |->
                        entered[e] + (IF e \in S /\ ~inView[e] THEN 1 ELSE 0)]
       /\ LET now(e) == IF inView'[e] THEN "in" ELSE "out"
              entries == {e \in observed : prevIntersecting[e] # now(e)}
              cb == observerCallback(entries)
          IN /\ prevIntersecting' = [e \in RevealEls |->
                                       IF e \in observed THEN now(e)
                                       ELSE prevIntersecting[e]]
             /\ animateCalls' = cb.animateCalls
             /\ observed' = cb.observed
             /\ revealTimers' = [e \in RevealEls |->
                                   IF cb.animateCalls[e] > animateCalls[e]
                                     THEN animateElement(revealTimers[e], e)
                                     ELSE revealTimers[e]]
             /\ sinceReveal' = [e \in RevealEls |->
                                  IF cb.animateCalls[e] > animateCalls[e]
                                       /\ sinceReveal[e] = Never
                                    THEN 0 ELSE sinceReveal[e]]
  /\ Note("frame")
  /\ UNCHANGED <<notFx, envVars, appVars, themeVars, menu, uncaughtError,
                 scrollVars, fx, lastRevealed>>

\* a timeout of animateElement fires, when it is due
RevealTimer ==
  /\ \E e \in RevealEls :
       /\ revealTimers[e] # <<>>
       /\ Head(revealTimers[e]) = 0
       /\ revealTimers' = [revealTimers EXCEPT ![e] = Tail(@)]
       /\ fx' = [fx EXCEPT ![e] = revealNow(@, e)]
       /\ lastRevealed' = e
  /\ Note("revealTimer")
  /\ UNCHANGED <<notFx, envVars, appVars, themeVars, menu, uncaughtError,
                 scrollVars, revealVars, sinceReveal>>

\* time passes while no reveal timeout is due
RevealTick ==
  /\ pc # "loading"
  /\ \E e \in RevealEls : sinceReveal[e] \notin {Never, RevealCap}
  /\ \A e \in RevealEls :
       \A k \in DOMAIN revealTimers[e] : revealTimers[e][k] > 0
  /\ revealTimers' = [e \in RevealEls |->
                        [k \in DOMAIN revealTimers[e] |->
                           revealTimers[e][k] - RevealStep]]
  /\ sinceReveal' = [e \in RevealEls |->
                       RevealElapse(sinceReveal[e], RevealStep)]
  /\ Note("revealTick")
  /\ UNCHANGED <<notFx, envVars, appVars, themeVars, menu, uncaughtError,
                 scrollVars, revealVars, fx, lastRevealed>>

\* mouseenter on a card (setupCardHoverEffects)
CardMouseEnter ==
  /\ "InteractiveComponents" \in Range(constructed)
  /\ \E e \in RevealEls :
       /\ IsCard(e)
       /\ fx' = [fx EXCEPT ![e].transform = "translateY(-8px) scale(1.02)"]
       /\ lastRevealed' = e
  /\ Note("mouseenter")
  /\ UNCHANGED <<notFx, envVars, appVars, themeVars, menu, uncaughtError,
                 scrollVars, revealVars, revealTimers, sinceReveal>>

\* mouseleave on a card
CardMouseLeave ==
  /\ "InteractiveComponents" \in Range(constructed)
  /\ lastEvent = "mouseenter"
  /\ fx' = [fx EXCEPT ![lastRevealed].transform = "translateY(0) scale(1)"]
  /\ Note("mouseleave")
  /\ UNCHANGED <<notFx, envVars, appVars, themeVars, menu, uncaughtError,
                 scrollVars, revealVars, revealTimers, sinceReveal,
                 lastRevealed>>

----------------------------------------------------------------------------
(* Initial states *)

EnvNominal == /\ storageMode = "ok"
              /\ present = AllElements

EnvAny == /\ storageMode \in StorageModes
          /\ present \in SUBSET AllElements

LayoutAny ==
  /\ \E l \in Layouts : /\ sections = l.sections
                        /\ links = l.links
  \* at most one link carries the active marker in the markup
  /\ markupActive \in {f \in [DOMAIN links -> BOOLEAN] :
                         Cardinality({i \in DOMAIN links : f[i]}) <= 1}

LayoutOne ==
  /\ \E l \in Layouts : /\ Len(l.links) = 3
                        /\ sections = l.sections
                        /\ links = l.links
  /\ markupActive = [i \in DOMAIN links |-> FALSE]

RevealAny == inView \in [RevealEls -> BOOLEAN]

RevealOne == inView = [e \in RevealEls |-> FALSE]

ParallaxAny == parallaxSpeed \in [ParallaxEls -> SpeedAttrs]

ParallaxOne == parallaxSpeed = [e \in ParallaxEls |-> NoItem]

\* the page as the browser has parsed it, before the script has run
InitRest ==
  /\ PageFresh
  /\ linkActive = markupActive
  /\ dataTheme = Unset
  /\ theme = Unset
  /\ iconClass = Unset
  /\ pc = "loading"
  /\ constructed = <<>>
  /\ themeClickBound = FALSE
  /\ navEventsBound = FALSE
  /\ keysBound = FALSE
  /\ uncaughtError = FALSE
  /\ menu = ClosedMenu
  /\ navScrolled = FALSE
  /\ navInThrottle = FALSE
  /\ observed = {}
  /\ prevIntersecting = [e \in RevealEls |-> Unset]
  /\ animateCalls = [e \in RevealEls |-> 0]
  /\ entered = [e \in RevealEls |-> IF inView[e] THEN 1 ELSE 0]
  /\ lastEvent = "load"
  /\ menuBefore = menu
  /\ storeAtLoad = store
  /\ themeLog = <<>>
  /\ liveText = Unset
  /\ readyState \in ReadyStates
  /\ bootstrap = "none"
  /\ initLog = <<>>
  /\ errorLogging = FALSE

\* a well-formed page with working storage, any stored string
Init ==
  /\ EnvNominal
  /\ store \in StoredItems
  /\ LayoutAny
  /\ scrollY \in {0, 450}
  /\ RevealOne
  /\ ParallaxOne
  /\ InitRest

\* any storage behaviour and any subset of the looked-up elements missing
InitEnv ==
  /\ EnvAny
  /\ store \in {NoItem, "light"}
  /\ LayoutOne
  /\ scrollY = 0
  /\ RevealOne
  /\ ParallaxOne
  /\ InitRest

\* the reveal observer on its own
InitReveal ==
  /\ EnvNominal
  /\ store = NoItem
  /\ LayoutOne
  /\ scrollY = 0
  /\ RevealAny
  /\ ParallaxOne
  /\ InitRest

\* the buttons on their own
InitButtons ==
  /\ EnvNominal
  /\ store = NoItem
  /\ LayoutOne
  /\ scrollY = 0
  /\ RevealOne
  /\ ParallaxOne
  /\ InitRest

\* smooth scrolling on its own, on every layout
InitSmooth ==
  /\ EnvNominal
  /\ store = NoItem
  /\ \E l \in AnchorLayouts : /\ sections = l.sections
                              /\ links = l.links
  /\ markupActive = [i \in DOMAIN links |-> FALSE]
  /\ scrollY \in {0, 450}
  /\ RevealOne
  /\ ParallaxOne
  /\ InitRest

\* smooth scrolling with frames that keep coming, on the markup with
\* three nav links
InitSmoothLive ==
  /\ EnvNominal
  /\ store = NoItem
  /\ LayoutOne
  /\ scrollY \in {0, 450}
  /\ RevealOne
  /\ ParallaxOne
  /\ InitRest

\* the scroll listeners on their own, any data-speed on the parallax
\* elements
InitScroll ==
  /\ EnvNominal
  /\ store = NoItem
  /\ LayoutOne
  /\ scrollY = 0
  /\ RevealOne
  /\ ParallaxAny
  /\ InitRest

----------------------------------------------------------------------------
(* Specifications *)

Next ==
  \/ ScriptWhileLoading
  \/ AppInit
  \/ DOMContentLoaded
  \/ ThemeToggleClick
  \/ NavToggleClick
  \/ NavLinkClick
  \/ OutsideClick
  \/ EscapeKey
  \/ CallOpenMobileMenu
  \/ CallCloseMobileMenu
  \/ Scroll
  \/ NavThrottleTimer
  \/ Reload

NextReveal ==
  \/ ScriptWhileLoading
  \/ AppInit
  \/ DOMContentLoaded
  \/ Frame

NextFx ==
  \/ ScriptWhileLoading
  \/ AppInit
  \/ DOMContentLoaded
  \/ Frame
  \/ RevealTimer
  \/ RevealTick
  \/ CardMouseEnter
  \/ CardMouseLeave

NextScroll ==
  \/ ScriptWhileLoading
  \/ AppInit
  \/ DOMContentLoaded
  \/ ScrollEvent
  \/ Tick
  \/ NavThrottleTimeout
  \/ ParallaxThrottleTimeout

NextSmooth ==
  \/ ScriptWhileLoading
  \/ AppInit
  \/ DOMContentLoaded
  \/ NavToggleClick
  \/ AnchorClick
  \/ AnimationFrame

NextButtons ==
  \/ ScriptWhileLoading
  \/ AppInit
  \/ DOMContentLoaded
  \/ ButtonClick
  \/ ButtonTimer
  \/ ButtonTick

Spec == Init /\ [][Next]_vars

SpecButtons == InitButtons /\ [][NextButtons]_vars

SpecSmooth == InitSmooth /\ [][NextSmooth]_vars
\* the browser runs a requested animation frame callback
SpecSmoothLive ==
  InitSmoothLive /\ [][NextSmooth]_vars /\ WF_vars(AnimationFrame)

SpecScroll == InitScroll /\ [][NextScroll]_vars

SpecEnv == InitEnv /\ [][Next]_vars

SpecReveal == InitReveal /\ [][NextReveal]_vars

SpecFx == InitReveal /\ [][NextFx]_vars

----------------------------------------------------------------------------
(* Properties *)

MenuClosed(m) == ~m.menuActive /\ ~m.toggleActive /\ m.overflow = ""

ActiveLinks == {i \in LinkIdx : linkActive[i]}

\* C1: once ThemeManager is constructed, and after every toggle, the
\* data-theme attribute, the stored 'aureon-theme' value and the
\* controller's theme field are equal.
C1_ThemeMirrored ==
  pc = "ready" => (dataTheme = theme /\ store = theme)

\* a page that found 'light' stored and was toggled to 'dark'
C1_Witness ==
  /\ pc = "ready"
  /\ lastEvent = "themeToggleClick"
  /\ storeAtLoad = "light"
  /\ theme = "dark" /\ store = "dark" /\ dataTheme = "dark"

\* C2: two consecutive toggles leave the theme field, the data-theme
\* attribute and the stored value as they were before the first of them,
\* whatever string was stored when the page loaded.
C2_ToggleInvolution ==
  Len(themeLog) = 2 => Snapshot = themeLog[1]

\* C3: the active theme is 'dark' or 'light', for every string stored when
\* the page loaded; right after construction it is the stored preference,
\* or 'dark' when nothing is stored.
C3_ThemeIsDarkOrLight ==
  pc = "ready" =>
    /\ theme \in {"dark", "light"}
    /\ themeLog = <<>> =>
         theme = (IF storeAtLoad \in {NoItem, ""} THEN "dark"
                                                   ELSE storeAtLoad)

\* C4: with browser storage unavailable AureonApp.init still completes: all
\* six controllers are constructed and the theme is the default 'dark'.
C4_StorageFailureTolerated ==
  (storageMode # "ok" /\ present = AllElements /\ pc # "loading") =>
    (pc = "ready" /\ Len(constructed) = Len(AllControllers)
       /\ theme = "dark" /\ ~uncaughtError)

\* C5: with any of the looked-up elements missing AureonApp.init completes
\* with all six controllers constructed and no later event raises an error.
C5_MissingElementsTolerated ==
  (storageMode = "ok" /\ pc # "loading") =>
    (pc = "ready" /\ Len(constructed) = Len(AllControllers)
       /\ ~uncaughtError)

\* C6: animateElement is invoked at most once for every element, however
\* often the element enters and leaves the visibility threshold.
C6_RevealAtMostOnce ==
  \A e \in RevealEls : animateCalls[e] <= 1

\* an element that was animated, left the threshold and entered it again
C6_Witness ==
  \E e \in RevealEls :
    /\ animateCalls[e] = 1
    /\ e \notin observed
    /\ entered[e] >= 2
    /\ inView[e]

\* C7: at most one nav link carries the active marker.
C7_AtMostOneActive ==
  Cardinality(ActiveLinks) <= 1

\* a scroll evaluation has moved the marker away from the link the markup
\* marked
C7_Witness ==
  /\ lastEvent = "scroll"
  /\ \E i \in LinkIdx : markupActive[i] /\ ~linkActive[i]
  /\ \E i \in LinkIdx : ~markupActive[i] /\ linkActive[i]

\* C8: after updateActiveNavLink has run at scroll offset y (in the scroll
\* listener, or in the constructor's first handleScroll), when some
\* section satisfies top <= y + 100 < top + height, the active links are
\* exactly the first link whose href names the last such section in document
\* order (none when no link names it); with A(0, 500) and B(500, 500),
\* y = 450 selects B and y = 350 selects A.
C8_ActiveLinkSelection ==
  (pc = "ready" /\ lastEvent \in {"scroll", "init", "DOMContentLoaded"}) =>
    LET pos == scrollY + 100
        hit == {k \in DOMAIN sections :
                  sections[k].top <= pos
                    /\ pos < sections[k].top + sections[k].height}
        last == CHOOSE k \in hit : \A j \in hit : j <= k
        named == {i \in LinkIdx : links[i].href = <<"#", sections[last].id>>}
    IN /\ hit # {} =>
            /\ ActiveLinks \subseteq named
            /\ named # {} => \E i \in named : /\ ActiveLinks = {i}
                                               /\ \A j \in named : i <= j
       /\ (Len(links) = 2 /\ links[2].href = <<"#", "b">>) =>
            /\ scrollY = 450 => ActiveLinks = {2}
            /\ scrollY = 350 => ActiveLinks = {1}

\* the evaluation at y = 450 on the page with A(0, 500) and B(500, 500)
C8_Witness ==
  /\ lastEvent = "scroll"
  /\ scrollY = 450
  /\ Len(links) = 2 /\ links[2].href = <<"#", "b">>
  /\ markupActive[1]
  /\ ActiveLinks = {2}

\* C9: openMobileMenu on an open menu and closeMobileMenu on a closed menu
\* leave the menu marker, the toggle marker, the scroll lock and the
\* per-item animation properties as they were.
C9_OpenCloseIdempotent ==
  /\ (lastEvent = "openMobileMenu" /\ menuBefore.menuActive)
       => menu = menuBefore
  /\ (lastEvent = "closeMobileMenu" /\ ~menuBefore.menuActive)
       => menu = menuBefore

\* openMobileMenu called on a menu that was open
C9_Witness ==
  /\ lastEvent = "openMobileMenu"
  /\ menuBefore.menuActive
  /\ menu.menuActive /\ menu.toggleActive /\ menu.overflow = "hidden"

\* C10: an outside click, a nav-link click or Escape leaves the menu closed
\* (both markers cleared, scroll unlocked); a click on the toggle control
\* flips the menu between open and closed.
C10_ClosersAndToggle ==
  /\ lastEvent \in {"outsideClick", "navLinkClick", "escape"}
       => MenuClosed(menu)
  /\ lastEvent = "navToggleClick" =>
       /\ menu.menuActive = ~menuBefore.menuActive
       /\ menu.menuActive => (menu.toggleActive /\ menu.overflow = "hidden")
       /\ ~menu.menuActive => MenuClosed(menu)

\* Escape pressed while the menu was open
C10_Witness ==
  /\ lastEvent = "escape"
  /\ menuBefore.menuActive /\ menuBefore.overflow = "hidden"
  /\ MenuClosed(menu)

\* C14: after startup every click on the theme toggle switches the theme and
\* then writes the name of the theme that is now active into the live
\* region, so the last announced name is the current theme.
C14_ToggleAnnounced ==
  (pc = "ready" /\ themeLog # <<>>) =>
    liveText = <<"Theme changed to ", theme, " mode">>

\* two clicks on a page that started dark: the second one announced 'dark'
\* over the first one's 'light'
C14_Witness ==
  /\ pc = "ready"
  /\ lastEvent = "themeToggleClick"
  /\ Len(themeLog) = 2
  /\ themeLog[2][3] = "light"
  /\ theme = "dark"
  /\ liveText = <<"Theme changed to ", "dark", " mode">>

\* C17: the controllers are constructed once per page load, never while the
\* document is still being parsed (at once on a parsed document, otherwise
\* on DOMContentLoaded), in the order Theme, Navigation, Reveal-Animation,
\* Performance, Interaction, Accessibility; the error logging is installed
\* after all of them.
C17_ConstructedOnceInOrder ==
  /\ Len(initLog) <= 1
  /\ \A k \in DOMAIN initLog : initLog[k] # "loading"
  /\ bootstrap = "done" =>
       /\ Len(initLog) = 1
       /\ constructed = <<"ThemeManager", "NavigationManager",
                          "ScrollAnimations", "PerformanceOptimizer",
                          "InteractiveComponents", "AccessibilityManager">>
       /\ errorLogging
  /\ bootstrap # "done" => (constructed = <<>> /\ ~errorLogging)

\* the script ran while the document was being parsed and the application
\* was initialised by DOMContentLoaded
C17_Witness ==
  /\ lastEvent = "DOMContentLoaded"
  /\ bootstrap = "done"
  /\ initLog = <<"interactive">>
  /\ Len(constructed) = 6
  /\ errorLogging

C15_ParallaxPure ==
  (lastEvent = "scrollEvent" /\ lastScroll.parRan) =>
    \A e \in ParallaxEls :
      /\ parallaxSpeed[e] = NoItem => parallaxY[e] * 2 = 0 - (scrollY * 10)
      /\ parallaxSpeed[e] = "0.2" => parallaxY[e] * 5 = 0 - (scrollY * 10)
      /\ parallaxSpeed[e] = "0" => parallaxY[e] = 0
      /\ (parallaxSpeed[e] = NoItem /\ scrollY = 200)
           => parallaxY[e] = 0 - 1000

\* a second evaluation, at y = 200, on a page whose first parallax element
\* names no speed and whose second names 0.2
C15_Witness ==
  /\ lastEvent = "scrollEvent"
  /\ lastScroll.parRan
  /\ parGap # Never
  /\ scrollY = 200
  /\ parallaxSpeed[1] = NoItem /\ parallaxY[1] = 0 - 1000
  /\ parallaxSpeed[2] = "0.2" /\ parallaxY[2] = 0 - 400

\* C16: at least 16 ms pass between two successive evaluations of the
\* navigation scroll handler, and between two of the parallax handler; a
\* scroll event that finds no throttle window open is evaluated at once.
C16_Throttled ==
  /\ navGap # Never => navGap >= 16
  /\ parGap # Never => parGap >= 16
  /\ lastEvent = "scrollEvent" =>
       /\ ~lastScroll.navOpen => (lastScroll.navRan /\ sinceNav = 0)
       /\ ~lastScroll.parOpen => (lastScroll.parRan /\ sincePar = 0)
       /\ lastScroll.navOpen => ~lastScroll.navRan
       /\ lastScroll.parOpen => ~lastScroll.parRan

\* an event evaluated by both handlers exactly 16 ms after their last
\* evaluation, both windows having just closed
C16_Witness ==
  /\ lastEvent = "scrollEvent"
  /\ lastScroll.navRan /\ lastScroll.parRan
  /\ navGap = 16 /\ parGap = 16

\* C18: once the scroll events have stopped and every pending timer has
\* fired, the nav bar carries the scrolled marker exactly when the final
\* offset is above 100 and every parallax offset is -(final offset * speed).
C18_ScrollUiInSync ==
  (pc = "ready" /\ sinceNav # Never /\ sincePar # Never
     /\ ~navInThrottle /\ ~parInThrottle) =>
    /\ navScrolled = (scrollY > 100)
    /\ \A e \in ParallaxEls :
         /\ parallaxSpeed[e] = NoItem => parallaxY[e] * 2 = 0 - (scrollY * 10)
         /\ parallaxSpeed[e] = "0.2" => parallaxY[e] * 5 = 0 - (scrollY * 10)

\* C11: the position written on the frame where the elapsed time first
\* reaches 1000 ms, the last one the animation writes, is the target's top
\* minus the offset, whether that frame comes at 1000 ms or later.
C11_ReachesTarget ==
  \A k \in DOMAIN finished :
    /\ finished[k].timeElapsed >= 1000
    /\ finished[k].run.num = finished[k].target * finished[k].run.den

\* C12: a click on a loading-state button shows the Processing placeholder
\* with the button disabled, after 2000 ms the Success label with the
\* accent colour, and after 2000 ms more the restore: then the content is
\* exactly the label the button had before the click, the button is
\* enabled and the background override is cleared.
C12_LoadingSequence ==
  LET b == lastButton
  IN /\ (lastEvent = "buttonClick" /\ HasLoadingState(b)) =>
          /\ btn[b].text[2] = "Processing..."
          /\ btn[b].disabled
     /\ lastEvent = "successTimer" =>
          /\ btn[b].text[2] = "Success!"
          /\ btn[b].disabled
          /\ btn[b].background = "var(--color-accent)"
     /\ lastEvent = "restoreTimer" =>
          /\ btn[b].text = ButtonMarkup[b].label
          /\ btn[b].ripples = <<>>
          /\ ~btn[b].disabled
          /\ btn[b].background = ""

\* C13: every ripple element is removed once its 600 ms have passed: on
\* any button, loading-state buttons included, no ripple element is left
\* once all pending timers have fired after the last click.
C13_RipplesRemoved ==
  timers = <<>> => \A b \in Buttons : btn[b].ripples = <<>>

\* C20: after an element's first qualifying crossing, once its delay
\* (default 0) has elapsed the element has its animation class, opacity 1
\* and, when the timeout runs, the neutral transform; nothing removes the
\* class or the opacity afterwards; before the delay has elapsed none of
\* the three has been applied.
C20_RevealAfterDelay ==
  \A e \in RevealEls :
    LET delay == IF e % 2 = 1 THEN 0 ELSE 200
        applied == /\ fx[e].animClass = <<"aos-animate-", AosType(e)>>
                   /\ fx[e].opacity = "1"
        neutral == "translateY(0) translateX(0) scale(1)"
    IN /\ (sinceReveal[e] # Never /\ sinceReveal[e] > delay) => applied
       /\ (sinceReveal[e] = Never \/ sinceReveal[e] < delay) =>
            /\ fx[e].animClass = <<>>
            /\ fx[e].opacity = Unset
            /\ fx[e].transform # neutral
       /\ (lastEvent = "revealTimer" /\ lastRevealed = e) =>
            (applied /\ fx[e].transform = neutral)
       /\ (fx[e].animClass # <<>> \/ fx[e].opacity # Unset) => applied

\* the element with data-aos-delay 200, revealed by its timeout 200 ms after
\* its crossing, and a card that was hovered after it had been revealed
C20_Witness ==
  /\ lastEvent = "mouseleave"
  /\ fx[1].animClass = <<"aos-animate-", "fade-up">>
  /\ fx[1].opacity = "1"
  /\ fx[1].transform = "translateY(0) scale(1)"
  /\ fx[2].animClass = <<"aos-animate-", "zoom-in">>
  /\ fx[2].opacity = "1"
  /\ sinceReveal[2] >= 200
  /\ animateCalls[2] = 1

\* C21: every smooth-scroll animation terminates.  A callback is pending
\* only while its elapsed time is below 1000 ms, an animation that ended
\* did so on a frame with elapsed time of 1000 ms or more, the scroll
\* position is written only by a pending callback, and with frames that
\* keep coming the pending callbacks run out.
C21_Terminates ==
  /\ [](/\ \A k \in DOMAIN anims : anims[k].elapsed < Duration
        /\ \A k \in DOMAIN finished : finished[k].timeElapsed >= Duration)
  /\ [][anims = <<>> => scrollWritten' = scrollWritten]_vars
  /\ (anims # <<>>) ~> (anims = <<>>)

C21_Witness ==
  /\ animsStarted > 0
  /\ anims = <<>>
  /\ finished # <<>>

\* C22: after a click on a nav link whose href starts with '#' the default
\* navigation is suppressed, and when the href names no element of the
\* page the click requests no animation frame, leaves the scroll position
\* alone and raises no error.
C22_MissingTargetNoOp ==
  (lastEvent = "anchorClick" /\ Head(lastAnchor.href) = "#") =>
    /\ lastAnchor.prevented
    /\ Targets(lastAnchor.href) = {} =>
         /\ lastAnchor.requested = 0
         /\ scrollY = lastAnchor.scrollBefore
         /\ ~lastAnchor.threw

\* C25: a smoothScrollTo started while an earlier one is animating cancels
\* nothing, the earlier callbacks stay pending next to the new one, and
\* when the last of them has ended the position written last is the target
\* of the call started last.
C25_LaterTargetWins ==
  (lastAnchor.requested = 1 /\ lastAnchor.overlap) =>
    /\ lastEvent = "anchorClick" =>
         /\ Len(anims) >= 2
         /\ anims[Len(anims)].target = lastAnchor.target
    /\ (lastEvent = "animationFrame" /\ anims = <<>>) =>
         scrollWritten.num = lastAnchor.target * scrollWritten.den

\* C23: when updateActiveNavLink runs (in the scroll listener or in the
\* constructor's first handleScroll) at an offset y for which no section
\* satisfies top <= y + 100 < top + height, every nav link keeps the
\* active marker it had: nothing is added and nothing is cleared.
C23_NoMatchLeavesMarkers ==
  [][(/\ lastEvent' \in {"scroll", "init", "DOMContentLoaded"}
      /\ \A k \in DOMAIN sections :
           ~SectionMatches(sections[k], scrollY' + LookaheadOffset))
     => linkActive' = linkActive]_vars

\* an evaluation in the gap between two sections, or below the last one,
\* with a link still marked
C23_Witness ==
  /\ pc = "ready"
  /\ lastEvent = "scroll"
  /\ \A k \in DOMAIN sections :
       ~SectionMatches(sections[k], scrollY + LookaheadOffset)
  /\ ActiveLinks # {}
  /\ linkActive # markupActive

\* C24: with no click delivered to a disabled button, every button has at
\* most one loading sequence in progress (a pending first or second
\* timeout of showLoadingState), and the button is disabled for as long as
\* its sequence is in progress, whatever the order of clicks and timeouts.
C24_OneSequencePerButton ==
  \A b \in Buttons :
    LET inProgress == {k \in DOMAIN timers :
                         /\ timers[k].button = b
                         /\ timers[k].kind \in {"success", "restore"}}
    IN /\ Cardinality(inProgress) <= 1
       /\ inProgress # {} => btn[b].disabled

\* two buttons in their sequences at once, one of them past its first
\* timeout
C24_Witness ==
  /\ \E k \in DOMAIN timers : timers[k].button = 2 /\ timers[k].kind = "restore"
  /\ \E k \in DOMAIN timers : timers[k].button = 3 /\ timers[k].kind = "success"
  /\ btn[2].disabled /\ btn[3].disabled
  /\ clicks = MaxClicks

====
